---- MODULE Spec2Model ----
(***************************************************************************)
(* The evaluation server of eval-server (EvaluationServer, its RpcClient   *)
(* and ClientManager collaborators, and the operator CLI that drives it),  *)
(* as a state machine.  One action per handler; a handler runs to its end  *)
(* (or to its first await) in one step, as on Node's single event loop.   *)
(***************************************************************************)
EXTENDS Integers, Sequences, FiniteSets, TLC

\* ------------------------------------------------------------------ bounds

MaxConns == 2          \* sockets accepted in one run
MaxRpc == 2            \* RPC calls issued in one run (correlation ids 1..MaxRpc)
RunAllConns == 1       \* sockets accepted while a run-all command is studied
MaxAgentReq == 2       \* evaluate requests one agent receives (ids 1..MaxAgentReq)
MaxPings == 1          \* heartbeat pings one agent sends
MaxTraced == 1002      \* events one TracingCallback is given
MaxLangfuseEvents == 3 \* events recorded with one SimpleLangfuse client
MaxHttpEvents == 6     \* events given to one HTTPTracingBackend
MaxBatch == 2          \* events one sendBatch call is given
HttpBatchSize == 2     \* config.batchSize of the HTTPTracingBackend
MaxProviderEvents == 6 \* events added to one LangfuseProvider
MaxFlights == 2        \* LangfuseProvider batches in flight at once
MaxContextCalls == 3   \* withContext calls made in one run
MaxDispatched == 5     \* events a TracingCallback with backends is given

\* ------------------------------------------------------- program constants

DefaultRpcTimeout == 45000     \* evaluation.timeout || 45000
JudgeThreshold == 70           \* judgeResult.score >= 0.7, in hundredths
DefaultMaxEvents == 1000       \* this.options.maxEvents || 1000
ProviderBatchSize == 5         \* LangfuseProvider.batchSize

\* Time advances in steps of the default RPC timeout.
TickMs == DefaultRpcTimeout

\* --------------------------------------------------------------- universes

Conns == 1..MaxConns
RpcIds == 1..MaxRpc
ClientIds == {"A", "B"}                 \* clients the client store knows
SecretKeys == {"good", "bad"}
\* Each socket is one browser tab: its register frames carry that tab's id
\* in capabilities.tabId (0: no capabilities known).
TabOf(c) == c
NoTab == 0
\* The evaluation ids a frame or a command can name, in the order the client
\* store lists them; StoredIds are those the store holds a definition for.
EvalOrder == <<"e1", "e2">>
EvalIds == {EvalOrder[n] : n \in DOMAIN EvalOrder}
StoredIds == {"e1"}
Statuses == {"pending", "running", "completed", "failed"}
FrameStatuses == {"running", "completed", "failed"}
Scores == {0, 69, 70, 71, 100}          \* judge scores, in hundredths

NoConn == 0
NoRpc == 0
Unarmed == -1

\* The directory's keys: a connection's transient id, a client id, or a
\* composite `clientId:tabId` (the key EvaluationCLI.runTabEvaluation looks up).
ConnKey(c) == <<"conn", c>>
ClientKey(id) == <<"client", id>>
CompositeKey(id, tab) == <<"composite", id, tab>>
Keys ==
    {ConnKey(c) : c \in Conns}
    \cup {ClientKey(id) : id \in ClientIds}
    \cup {CompositeKey(id, TabOf(c)) : id \in ClientIds, c \in Conns}

VARIABLES
    conn,              \* the connection objects handleConnection created
    connectedAgents,   \* EvaluationServer.connectedAgents: key -> connection
    pendingRequests,   \* per connection, RpcClient's outstanding correlation ids
    timers,            \* per correlation id, ms left on its timer (Unarmed: none)
    completions,       \* per correlation id, how many times its call was completed
    nextRpc,           \* the next fresh correlation id
    evalStatus,        \* ClientManager: status of each evaluation of each client
    evalResult,        \* ClientManager: last stored result of each evaluation
    exec,              \* the executeEvaluation calls, one record per caller
    evalDef,           \* the evaluation definitions loaded from configuration
    runAll,            \* the CLI's run-all loop: its position and its counters
    agent,             \* the EvaluationAgent peer: its flags, socket and tool runs
    tracing,           \* a TracingCallback: its options and its event list
    langfuse,          \* a SimpleLangfuse client: pendingEvents and its POSTs
    http,              \* an HTTPTracingBackend: pendingEvents, isFlushing, its POST
    provider,          \* a LangfuseProvider: eventBuffer and its batches in flight
    contexts,          \* TracingContextManager: contextStack and the withContext calls
    sink               \* the events a ConsoleTracingBackend was sent, in order

vars == <<conn, connectedAgents, pendingRequests, timers, completions, nextRpc,
          evalStatus, evalResult, exec, evalDef, runAll, agent, tracing,
          langfuse, http, provider, contexts, sink>>

\* What the server and its CLI own, and what the peers own.
serverVars == <<conn, connectedAgents, pendingRequests, timers, completions,
                nextRpc, evalStatus, evalResult, exec, evalDef, runAll>>
backendVars == <<langfuse, http, provider, contexts, sink>>
peerVars == <<agent, tracing, backendVars>>

\* ------------------------------------------------------------------ frames

\* An inbound frame.  json = FALSE is text that JSON.parse rejects.  rpcKind
\* says whether the frame is shaped as a JSON-RPC response (result / error)
\* carrying correlation id `id`; type is the control-frame discriminator
\* ("none": the frame has no type field).
BlankFrame ==
    [json |-> TRUE, rpcKind |-> "none", id |-> NoRpc, type |-> "none",
     clientId |-> "", secretKey |-> "", tabId |-> NoTab, tools |-> "array",
     evaluationId |-> "", status |-> ""]

MalformedFrame == [BlankFrame EXCEPT !.json = FALSE]
ReadyFrame == [BlankFrame EXCEPT !.type = "ready"]
PingFrame == [BlankFrame EXCEPT !.type = "ping"]
UnknownFrame == [BlankFrame EXCEPT !.type = "bogus"]
\* capabilities.tools is an array of names, or some other JSON value ("text").
RegisterFrame(id, key, tab, tools) ==
    [BlankFrame EXCEPT !.type = "register", !.clientId = id, !.secretKey = key,
                       !.tabId = tab, !.tools = tools]
StatusFrame(e, s) ==
    [BlankFrame EXCEPT !.type = "status", !.evaluationId = e, !.status = s]
\* A JSON-RPC response; it may carry a type field as well.
ResponseFrame(i, kind, type) ==
    [BlankFrame EXCEPT !.rpcKind = kind, !.id = i, !.type = type]

Frames ==
    {MalformedFrame, ReadyFrame, PingFrame, UnknownFrame}
    \cup {RegisterFrame(id, key, TabOf(c), tools) :
            id \in ClientIds, key \in SecretKeys, c \in Conns,
            tools \in {"array", "text"}}
    \cup {StatusFrame(e, s) : e \in EvalIds, s \in FrameStatuses}
    \cup {ResponseFrame(i, kind, type) :
            i \in RpcIds, kind \in {"result", "error"}, type \in {"none", "ready"}}

\* The frames the agent behind socket c can send, when the evaluations it can
\* be asked to run are `ids`: its register frames carry its tab, its status
\* frames the id of an evaluation it was sent.
FramesBySocket ==
    [c \in Conns |-> [ids \in SUBSET EvalIds |->
        {f \in Frames : /\ f.type = "register" => f.tabId = TabOf(c)
                        /\ f.type = "status" => f.evaluationId \in ids}]]
FramesOn(c) == FramesBySocket[c][DOMAIN evalDef]

\* An outbound frame, as sendMessage / ws.send put it on connection `to`.
OutFrame(to, type, status, clientId, id) ==
    [to |-> to, type |-> type, status |-> status, clientId |-> clientId, id |-> id]


\* ---------------------------------------------------- evaluation definitions

\* The evaluations the client store holds for each client (YAML definitions).
ClientEvaluations(clientId) == IF clientId = "A" THEN DOMAIN evalDef ELSE {}
EvalKeys == {<<id, e>> : id \in ClientIds, e \in EvalIds}
OwnedKeysOf ==
    [ids \in SUBSET EvalIds |-> {k \in EvalKeys : k[1] = "A" /\ k[2] \in ids}]
OwnedKeys == OwnedKeysOf[DOMAIN evalDef]

\* The definitions an evaluation may have: validation.type ("none": the
\* definition has no validation block), timeout in ms (0: none given) and the
\* validation threshold in hundredths (0: none given).
EvalDefs ==
    {[validation |-> "llm-judge", timeout |-> 0, threshold |-> 0],
     [validation |-> "llm-judge", timeout |-> 0, threshold |-> 50],
     [validation |-> "none", timeout |-> 2 * TickMs, threshold |-> 0]}
EvalValidation(e) == evalDef[e].validation
EvalTimeout(e) == evalDef[e].timeout
EvalThreshold(e) == evalDef[e].threshold

NoResult ==
    [kind |-> "none", validation |-> "null", error |-> "", duration |-> FALSE]
SuccessResult(v) ==
    [kind |-> "response", validation |-> v, error |-> "", duration |-> TRUE]
ErrorResult(msg) ==
    [kind |-> "error", validation |-> "null", error |-> msg, duration |-> TRUE]

\* --------------------------------------------------------------------- Init

NewConnection ==
    [state |-> "none", registered |-> FALSE, ready |-> FALSE, clientId |-> "",
     capabilities |-> NoTab]

\* The callers of executeEvaluation; each runs one call at a time.
Execs == {"cli"}

IdleExec ==
    [pc |-> "idle", conn |-> NoConn, owner |-> "", eval |-> "", rpcId |-> NoRpc]

\* How a finished executeEvaluation call is kept: only its outcome.
Returned == [IdleExec EXCEPT !.pc = "returned"]
Threw == [IdleExec EXCEPT !.pc = "threw"]

\* The run-all loop before the command is given.
IdleRun ==
    [pc |-> "idle", conn |-> NoConn, clientId |-> "", index |-> 0,
     completed |-> 0, failed |-> 0, dispatched |-> <<>>]

\* An evaluate request the agent has not received.
AgentReqIds == 1..MaxAgentReq
NoRequest ==
    [phase |-> "none", evaluationId |-> "", timer |-> FALSE, toolRunning |-> FALSE,
     stayed |-> FALSE, outcome |-> "none", replies |-> <<>>]

\* new EvaluationAgent(options): no client, nothing registered.  welcomed,
\* accepted, rejected, sentRegister, sentReady and readyAfterReject record
\* what the current connection has received and sent.
NewAgent ==
    [client |-> FALSE, socket |-> "none", registered |-> FALSE, ready |-> FALSE,
     heartbeat |-> FALSE, active |-> {}, pings |-> 0,
     welcomed |-> FALSE, accepted |-> FALSE, rejected |-> FALSE,
     sentRegister |-> FALSE, sentReady |-> FALSE, readyAfterReject |-> FALSE,
     requests |-> [i \in AgentReqIds |-> NoRequest]]

\* new TracingCallback(options): options.maxEvents as given (NoOption: the
\* caller's options leave it out), an empty event list.
NoOption == -1
NewTracing(maxEvents) ==
    [maxEvents |-> maxEvents, events |-> <<>>, count |-> 0,
     backends |-> <<>>, awaiting |-> <<>>]

\* new SimpleLangfuse(config): nothing pending, no POST in flight.  recorded
\* numbers the events in the order they are recorded; delivered counts, per
\* event, the successful POSTs whose body held it.
Flushers == {"timer", "explicit"}
NoBatch == <<>>
NewLangfuse ==
    [pendingEvents |-> <<>>, recorded |-> 0,
     posting |-> [w \in Flushers |-> NoBatch],
     delivered |-> [e \in 1..MaxLangfuseEvents |-> 0]]

\* new HTTPTracingBackend(config): nothing pending, not flushing.  sent is
\* what the endpoint accepted, in the order it arrived.
\* flights holds the eventsToSend of every POST that has not settled, and
\* requeued the number of events the last failed POST put back.
NewHttp ==
    [pendingEvents |-> <<>>, isFlushing |-> FALSE, flights |-> <<>>,
     recorded |-> 0, sent |-> <<>>, requeued |-> 0]

\* new LangfuseProvider(...): an empty eventBuffer, no batch in flight.
NewProvider ==
    [eventBuffer |-> <<>>, recorded |-> 0, flights |-> <<>>, sent |-> {}]

\* TracingContextManager.getInstance(): an empty contextStack; no
\* withContext call has been made.
ContextCalls == 1..MaxContextCalls
NoCall == 0
IdleCall == [pc |-> "idle", parent |-> NoCall, previousStackSize |-> 0,
             before |-> <<>>, after |-> <<>>]
NewContexts ==
    [contextStack |-> <<>>, calls |-> [p \in ContextCalls |-> IdleCall]]

\* The tracing backends and helpers after construction.
BackendsInit ==
    /\ langfuse = NewLangfuse
    /\ http = NewHttp
    /\ provider = NewProvider
    /\ contexts = NewContexts
    /\ sink = <<>>

\* The server after construction, for a client store that holds one of the
\* definition files in `stores`.
ServerInit(stores) ==
    /\ evalDef \in stores
    /\ runAll = IdleRun
    /\ conn = [c \in Conns |-> NewConnection]
    /\ connectedAgents = [k \in Keys |-> NoConn]
    /\ pendingRequests = [c \in Conns |-> {}]
    /\ timers = [i \in RpcIds |-> Unarmed]
    /\ completions = [i \in RpcIds |-> 0]
    /\ nextRpc = 1
    /\ evalStatus = [k \in OwnedKeys |-> "pending"]
    /\ evalResult = [k \in OwnedKeys |-> NoResult]
    /\ exec = [d \in Execs |-> IdleExec]

\* The same, next to an agent that has not connected and a TracingCallback
\* built with default options.
InitWith(stores) ==
    /\ ServerInit(stores)
    /\ agent = NewAgent
    /\ tracing = NewTracing(NoOption)
    /\ BackendsInit

Init == InitWith([StoredIds -> EvalDefs])

\* ---------------------------------------------------------- ClientManager

\* ClientManager.validateClient: the store knows the client and the key matches.
validateClient(clientId, secretKey) ==
    clientId \in ClientIds /\ secretKey = "good"

\* ClientManager.updateEvaluationStatus(clientId, evaluationId, status): the
\* status map after the call; a client or evaluation the store lacks is ignored.
updateEvaluationStatus(st, clientId, e, s) ==
    IF <<clientId, e>> \in OwnedKeys THEN [st EXCEPT ![<<clientId, e>>] = s] ELSE st

\* The same call's effect on the stored result, when a result is passed.
updateEvaluationResult(res, clientId, e, r) ==
    IF <<clientId, e>> \in OwnedKeys THEN [res EXCEPT ![<<clientId, e>>] = r] ELSE res

\* -------------------------------------------------------------- RpcClient

\* handleResponse's test: the frame is a JSON-RPC response whose id is
\* outstanding on this connection's RpcClient.
handleResponseAnyId(c, f) == f.json /\ f.rpcKind # "none"
handleResponse(c, f) ==
    f.json /\ f.rpcKind # "none" /\ f.id \in pendingRequests[c]

\* The timer of a call that a response completed (clearTimeout).
TimerAfterResponseKept(i) == timers[i]
TimerAfterResponse(i) == Unarmed

\* The ids cleanup() fails: every call pending on the connection.
cleanup(c) == pendingRequests[c]

\* ------------------------------------------------------ executeEvaluation

NeedsJudge(e) == EvalValidation(e) \in {"llm-judge", "hybrid"}

\* What the judge collaborator returns for a response it scores `score`
\* (hundredths): {overall_score, strengths, weaknesses}.
JudgeResult(score) == [overall_score |-> score]

\* judgeResult.score >= 0.7: a field the result lacks reads as undefined, and
\* undefined >= 0.7 is false.
ScorePasses(judgeResult) ==
    "score" \in DOMAIN judgeResult /\ judgeResult.score >= JudgeThreshold

\* validateResponse's verdict for the judge's result.
validateResponse(e, judgeResult) ==
    IF NeedsJudge(e)
    THEN IF ScorePasses(judgeResult) THEN "passed" ELSE "notpassed"
    ELSE "null"

\* The client id executeEvaluation passes to updateEvaluationStatus: it reads
\* client.clientId from the connection object at the time of each call.
StatusClient(d) == conn[exec[d].conn].clientId

Awaiting(d) == exec[d].pc \in {"awaitRpc", "awaitJudge"}

\* The calls whose promise is settled when the ids in `ids` are completed.
Settled(ids, d) == exec[d].pc = "awaitRpc" /\ exec[d].rpcId \in ids

\* The calls among them that finish at once: a rejection is caught and
\* re-thrown, a result finishes unless the judge has to be awaited.
Finishes(ids, how, d) ==
    Settled(ids, d) /\ (how # "result" \/ ~NeedsJudge(exec[d].eval))

\* The continuation of executeEvaluation after `await callMethod`, for every
\* call settled by completing `ids` with outcome `how` ("result", or the
\* rejection's cause).
ExecAfterRpc(ids, how) ==
    /\ exec' = [d \in Execs |->
          IF ~Settled(ids, d) THEN exec[d]
          ELSE IF how # "result" THEN Threw
          ELSE IF NeedsJudge(exec[d].eval) THEN [exec[d] EXCEPT !.pc = "awaitJudge"]
          ELSE Returned]
    /\ evalStatus' = [k \in OwnedKeys |->
          IF \E d \in Execs : Finishes(ids, how, d) /\ k = <<StatusClient(d), exec[d].eval>>
          THEN IF how = "result" THEN "completed" ELSE "failed"
          ELSE evalStatus[k]]
    /\ evalResult' = [k \in OwnedKeys |->
          IF \E d \in Execs : Finishes(ids, how, d) /\ k = <<StatusClient(d), exec[d].eval>>
          THEN IF how = "result" THEN SuccessResult("null") ELSE ErrorResult(how)
          ELSE evalResult[k]]

\* sendMessage(ws, data): the frame goes out when the socket is open.
sendMessage(c, frame) == IF conn[c].state = "open" THEN <<frame>> ELSE <<>>

\* The frames callMethod puts on the wire for the call it issues on c (ws.send
\* drops the request when the socket is no longer open).
callMethodSends(c) == sendMessage(c, OutFrame(c, "evaluate", "", "", nextRpc))

\* The synchronous head of executeEvaluation(client, evaluation), up to
\* `await callMethod`: status 'running' under client.clientId, then
\* RpcClient.callMethod with evaluation.timeout || 45000.  st is the status
\* map the caller left.
executeEvaluation(d, c, owner, e, st) ==
    /\ nextRpc <= MaxRpc
    /\ exec' = [exec EXCEPT ![d] =
          [pc |-> "awaitRpc", conn |-> c, owner |-> owner, eval |-> e,
           rpcId |-> nextRpc]]
    /\ evalStatus' = updateEvaluationStatus(st, conn[c].clientId, e, "running")
    /\ pendingRequests' = [pendingRequests EXCEPT ![c] = @ \cup {nextRpc}]
    /\ timers' = [timers EXCEPT ![nextRpc] =
          IF EvalTimeout(e) # 0 THEN EvalTimeout(e) ELSE DefaultRpcTimeout]
    /\ nextRpc' = nextRpc + 1
    /\ UNCHANGED <<conn, connectedAgents, completions, evalResult, evalDef>>
    /\ UNCHANGED peerVars

\* ----------------------------------------------------------------- server

\* handleConnection: a new socket gets a connection object under a fresh
\* transient id, and the welcome frame.
handleConnection(c) ==
    /\ conn[c].state = "none"
    /\ \A b \in Conns : b < c => conn[b].state # "none"
    /\ conn' = [conn EXCEPT ![c].state = "open"]
    /\ connectedAgents' = [connectedAgents EXCEPT ![ConnKey(c)] = c]
    /\ UNCHANGED <<pendingRequests, timers, completions, nextRpc, evalStatus,
                   evalResult, exec, evalDef, runAll>>
    /\ UNCHANGED peerVars

\* The frames handleConnection sends on the new connection c.
handleConnectionSendsNothing(c) == <<>>
handleConnectionSends(c) == <<OutFrame(c, "welcome", "", "", NoRpc)>>

\* The directory key handleRegistration stores an accepted connection under.
RegistrationKey(clientId, tabId) == ClientKey(clientId)

\* A registration_ack for frame f.
RegistrationAck(c, f, status) == OutFrame(c, "registration_ack", status, f.clientId, NoRpc)

\* The log call that follows the accepted ack evaluates
\* capabilities?.tools?.join(', '), which throws when tools is no array.
LogThrows(f) == f.tools # "array"

\* The frames handleRegistration sends for register frame f: the rejected ack
\* of a failed validation, or the accepted ack, followed by the rejected ack
\* of the catch block when the rest of the try block throws.
handleRegistrationSends(c, f) ==
    IF ~validateClient(f.clientId, f.secretKey)
    THEN sendMessage(c, RegistrationAck(c, f, "rejected"))
    ELSE sendMessage(c, RegistrationAck(c, f, "accepted"))
         \o (IF LogThrows(f) THEN sendMessage(c, RegistrationAck(c, f, "rejected"))
             ELSE <<>>)

handleRegistration(c, f) ==
    LET valid == validateClient(f.clientId, f.secretKey) IN
    IF valid
    THEN /\ conn' = [conn EXCEPT ![c].registered = TRUE,
                                 ![c].clientId = f.clientId,
                                 ![c].capabilities = f.tabId]
         /\ connectedAgents' =
               [connectedAgents EXCEPT ![ConnKey(c)] = NoConn,
                                       ![RegistrationKey(f.clientId, f.tabId)] = c]
    ELSE UNCHANGED <<conn, connectedAgents>>

\* case 'ready': the guard that lets a ready frame set connection.ready.
ReadyAllowedUnguarded(c) == TRUE
ReadyAllowed(c) == conn[c].registered

\* handleStatusUpdate: the status map after a status frame on connection c.
handleStatusUpdate(c, f) ==
    IF ~conn[c].registered THEN evalStatus
    ELSE updateEvaluationStatus(evalStatus, conn[c].clientId, f.evaluationId, f.status)

\* A frame handleMessage drops (JSON.parse threw, or the default case of the
\* switch): it is logged, and the connection is left as it was.
dropFrameCloses(c) ==
    /\ conn' = [conn EXCEPT ![c].state = "closed"]
    /\ UNCHANGED <<connectedAgents, evalStatus>>
dropFrame(c) == UNCHANGED <<conn, connectedAgents, evalStatus>>

\* The frames handleMessage sends while it handles frame f on connection c.
handleMessageSends(c, f) ==
    IF handleResponse(c, f) \/ ~f.json THEN <<>>
    ELSE IF f.type = "register" THEN handleRegistrationSends(c, f)
    ELSE IF f.type = "ping" THEN sendMessage(c, OutFrame(c, "pong", "", "", NoRpc))
    ELSE <<>>

\* handleMessage: the frame is offered to the connection's RpcClient first;
\* a frame it does not consume is parsed and dispatched on its type.
handleMessage(c, f) ==
    /\ conn[c].state = "open"
    /\ IF handleResponse(c, f)
       THEN /\ pendingRequests' = [pendingRequests EXCEPT ![c] = @ \ {f.id}]
            /\ timers' = [timers EXCEPT ![f.id] = TimerAfterResponse(f.id)]
            /\ completions' = [completions EXCEPT ![f.id] = @ + 1]
            /\ ExecAfterRpc({f.id}, IF f.rpcKind = "result" THEN "result" ELSE "rpc_error")
            /\ UNCHANGED <<conn, connectedAgents, nextRpc>>
       ELSE /\ UNCHANGED <<pendingRequests, timers, completions, nextRpc, evalResult, exec>>
            /\ IF ~f.json
               THEN dropFrame(c)
               ELSE CASE f.type = "register" ->
                           /\ handleRegistration(c, f)
                           /\ UNCHANGED evalStatus
                      [] f.type = "ping" ->
                           UNCHANGED <<conn, connectedAgents, evalStatus>>
                      [] f.type = "ready" ->
                           /\ conn' = IF ReadyAllowed(c)
                                      THEN [conn EXCEPT ![c].ready = TRUE]
                                      ELSE conn
                           /\ UNCHANGED <<connectedAgents, evalStatus>>
                      [] f.type = "status" ->
                           /\ evalStatus' = handleStatusUpdate(c, f)
                           /\ UNCHANGED <<conn, connectedAgents>>
                      [] OTHER ->
                           dropFrame(c)
    /\ UNCHANGED <<evalDef, runAll>>
    /\ UNCHANGED peerVars

\* The directory key handleDisconnection deletes.
DisconnectionKey(c) ==
    IF conn[c].registered /\ conn[c].clientId # ""
    THEN ClientKey(conn[c].clientId)
    ELSE ConnKey(c)

\* handleDisconnection: the socket's close event.  RpcClient.cleanup fails
\* every pending call of the connection, then the directory entry goes.
handleDisconnection(c) ==
    /\ conn[c].state = "open"
    /\ pendingRequests' = [pendingRequests EXCEPT ![c] = @ \ cleanup(c)]
    /\ timers' = [i \in RpcIds |-> IF i \in cleanup(c) THEN Unarmed ELSE timers[i]]
    /\ completions' = [i \in RpcIds |->
          IF i \in cleanup(c) THEN completions[i] + 1 ELSE completions[i]]
    /\ ExecAfterRpc(cleanup(c), "closed")
    /\ connectedAgents' = [connectedAgents EXCEPT ![DisconnectionKey(c)] = NoConn]
    /\ conn' = [conn EXCEPT ![c].state = "closed"]
    /\ UNCHANGED <<nextRpc, evalDef, runAll>>
    /\ UNCHANGED peerVars

\* ----------------------------------------------------------------- timers

\* Time passes: every running timer loses one tick.
Tick ==
    /\ \E i \in RpcIds : timers[i] > 0
    /\ timers' = [i \in RpcIds |->
          IF timers[i] > TickMs THEN timers[i] - TickMs
          ELSE IF timers[i] > 0 THEN 0 ELSE timers[i]]
    /\ UNCHANGED <<conn, connectedAgents, pendingRequests, completions, nextRpc,
                   evalStatus, evalResult, exec, evalDef, runAll>>
    /\ UNCHANGED peerVars

\* The pending tables after the timer callback of call i deleted its entry.
pendingAfterTimeoutKept(i) == pendingRequests
pendingAfterTimeout(i) == [c \in Conns |-> pendingRequests[c] \ {i}]

\* callMethod's timer callback: the pending entry is removed and the call
\* rejected with a timeout error.
TimerFire(i) ==
    /\ timers[i] = 0
    /\ timers' = [timers EXCEPT ![i] = Unarmed]
    /\ pendingRequests' = pendingAfterTimeout(i)
    /\ completions' = [completions EXCEPT ![i] = @ + 1]
    /\ ExecAfterRpc({i}, "timeout")
    /\ UNCHANGED <<conn, connectedAgents, nextRpc, evalDef, runAll>>
    /\ UNCHANGED peerVars

\* ------------------------------------------------------------------ judge

\* The judge call of validateResponse returns its result for a score.
JudgeReturn(d, score) ==
    /\ exec[d].pc = "awaitJudge"
    /\ exec' = [exec EXCEPT ![d] = Returned]
    /\ evalStatus' = updateEvaluationStatus(evalStatus, StatusClient(d), exec[d].eval, "completed")
    /\ evalResult' = updateEvaluationResult(evalResult, StatusClient(d), exec[d].eval,
                        SuccessResult(validateResponse(exec[d].eval, JudgeResult(score))))
    /\ UNCHANGED <<conn, connectedAgents, pendingRequests, timers, completions,
                   nextRpc, evalDef, runAll>>
    /\ UNCHANGED peerVars

\* The judge call throws.
JudgeThrow(d) ==
    /\ exec[d].pc = "awaitJudge"
    /\ exec' = [exec EXCEPT ![d] = Threw]
    /\ evalStatus' = updateEvaluationStatus(evalStatus, StatusClient(d), exec[d].eval, "failed")
    /\ evalResult' = updateEvaluationResult(evalResult, StatusClient(d), exec[d].eval,
                        ErrorResult("judge_error"))
    /\ UNCHANGED <<conn, connectedAgents, pendingRequests, timers, completions,
                   nextRpc, evalDef, runAll>>
    /\ UNCHANGED peerVars

\* -------------------------------------------------------------------- CLI

\* startInteractiveMode / handleCommand: the prompt is asked again only when
\* handleCommand has awaited the command it was given.
promptOpenAlways == TRUE
promptOpen == ~Awaiting("cli") /\ runAll.pc \in {"idle", "done"}

\* EvaluationCLI.runSpecificEvaluation(clientId, evaluationId): the `run`
\* command.  The CLI reads its next command only when this one has finished.
runSpecificEvaluation(clientId, e) ==
    LET c == connectedAgents[ClientKey(clientId)] IN
    /\ promptOpen
    /\ c # NoConn
    /\ conn[c].ready
    /\ e \in ClientEvaluations(clientId)
    /\ executeEvaluation("cli", c, clientId, e,
                         updateEvaluationStatus(evalStatus, clientId, e, "pending"))
    /\ UNCHANGED runAll

\* ------------------------------------------------------------------- Next

Next ==
    \/ \E c \in Conns : handleConnection(c)
    \/ \E c \in Conns : \E f \in FramesOn(c) : handleMessage(c, f)
    \/ \E c \in Conns : handleDisconnection(c)
    \/ Tick
    \/ \E i \in RpcIds : TimerFire(i)
    \/ \E d \in Execs, score \in Scores : JudgeReturn(d, score)
    \/ \E d \in Execs : JudgeThrow(d)
    \/ \E id \in ClientIds, e \in EvalIds : runSpecificEvaluation(id, e)

Spec == Init /\ [][Next]_vars

\* The same program with its scheduling assumptions: time passes, armed timers
\* fire, and the judge call comes back (with a score or an exception).
JudgeSettles(d) == JudgeThrow(d) \/ \E score \in Scores : JudgeReturn(d, score)

FairSpec ==
    /\ Spec
    /\ WF_vars(Tick)
    /\ \A i \in RpcIds : WF_vars(TimerFire(i))
    /\ \A d \in Execs : WF_vars(JudgeSettles(d))

\* EvaluationServer is exported: a program that embeds it may invoke
\* executeEvaluation(client, evaluation) itself, with any connection object of
\* the directory and any evaluation of the client store.
executeEvaluationCall(d, c, e) ==
    /\ ~Awaiting(d)
    /\ \E k \in Keys : connectedAgents[k] = c
    /\ e \in DOMAIN evalDef
    /\ executeEvaluation(d, c, conn[c].clientId, e, evalStatus)
    /\ UNCHANGED runAll

ApiNext ==
    \/ Next
    \/ \E d \in Execs, c \in Conns, e \in EvalIds : executeEvaluationCall(d, c, e)

ApiSpec == Init /\ [][ApiNext]_vars

\* ----------------------------------------------------------------- claims

RegisterFramesOn(c) == {f \in FramesOn(c) : f.type = "register"}
StatusFrames == {f \in Frames : f.type = "status"}
Open(c) == conn[c].state = "open"

\* C1: a register frame handled on an open connection is answered by exactly
\* one registration_ack, 'accepted' when the client store validates it and
\* 'rejected' otherwise; an accepted one leaves the connection registered, a
\* rejected one leaves the connection object (registered flag, clientId, open
\* socket) and the directory as they were.
C1_RegisterAnsweredOnce ==
    [][\A c \in Conns : \A f \in RegisterFramesOn(c) :
         handleMessage(c, f) =>
           IF validateClient(f.clientId, f.secretKey)
           THEN /\ handleMessageSends(c, f) = <<RegistrationAck(c, f, "accepted")>>
                /\ conn'[c].registered /\ Open(c)'
           ELSE /\ handleMessageSends(c, f) = <<RegistrationAck(c, f, "rejected")>>
                /\ conn'[c] = conn[c]
                /\ connectedAgents' = connectedAgents]_vars

\* C2: a connection whose ready flag is set is registered, and the flag is set
\* only by a ready frame handled on a registered connection.
C2_ReadyImpliesRegistered ==
    /\ [](\A c \in Conns : conn[c].ready => conn[c].registered)
    /\ [][\A c \in Conns :
            (~conn[c].ready /\ conn'[c].ready) =>
              /\ conn[c].registered
              /\ \E f \in FramesOn(c) : f.type = "ready" /\ handleMessage(c, f)]_vars

\* C2's case: a ready frame has set the flag on an open registered connection
\* while another open connection is still unregistered and not ready.
C2_Witness ==
    \E c, b \in Conns :
        /\ Open(c) /\ conn[c].ready /\ conn[c].registered
        /\ Open(b) /\ ~conn[b].registered /\ ~conn[b].ready

\* C3: when two open connections are registered with the same base client id
\* and different tab ids, the directory holds one entry per tab, keyed
\* base:tab, each mapping to its own connection.
C3_OneEntryPerTab ==
    \A c, b \in Conns :
        (/\ c # b
         /\ Open(c) /\ conn[c].registered
         /\ Open(b) /\ conn[b].registered
         /\ conn[c].clientId = conn[b].clientId
         /\ conn[c].capabilities # conn[b].capabilities)
        => /\ connectedAgents[CompositeKey(conn[c].clientId, conn[c].capabilities)] = c
           /\ connectedAgents[CompositeKey(conn[b].clientId, conn[b].capabilities)] = b

\* C4: no two open registered connections hold the same identity.
C4_OneConnectionPerIdentity ==
    \A c, b \in Conns :
        (/\ c # b
         /\ Open(c) /\ conn[c].registered
         /\ Open(b) /\ conn[b].registered)
        => conn[c].clientId # conn[b].clientId

\* C5: the disconnection handler of connection c fails every call pending on
\* c and leaves no directory entry, under any key, that maps to c.
C5_DisconnectionRemovesAll ==
    [][\A c \in Conns :
         handleDisconnection(c) =>
           /\ pendingRequests'[c] = {}
           /\ \A i \in pendingRequests[c] : completions'[i] = completions[i] + 1
           /\ \A k \in Keys : connectedAgents'[k] # c]_vars

\* C6: an RPC call is completed at most once, by its response, its timer or
\* the connection's cleanup; a completed call is no longer pending and has no
\* timer, an issued call not yet completed is pending on one connection with
\* its timer armed, and a timer that fires on a pending call rejects it.
C6_CallCompletedOnce ==
    /\ [](\A i \in RpcIds :
            /\ completions[i] <= 1
            /\ completions[i] = 1 =>
                 /\ \A c \in Conns : i \notin pendingRequests[c]
                 /\ timers[i] = Unarmed
            /\ (i < nextRpc /\ completions[i] = 0) =>
                 /\ Cardinality({c \in Conns : i \in pendingRequests[c]}) = 1
                 /\ timers[i] # Unarmed
            /\ i >= nextRpc =>
                 /\ completions[i] = 0
                 /\ \A c \in Conns : i \notin pendingRequests[c])
    /\ [][\A i \in RpcIds :
            (TimerFire(i) /\ \E c \in Conns : i \in pendingRequests[c]) =>
              /\ completions'[i] = 1
              /\ \A c \in Conns : i \notin pendingRequests'[c]
              /\ \A d \in Execs :
                   (exec[d].pc = "awaitRpc" /\ exec[d].rpcId = i) => exec'[d] = Threw]_vars

\* C6's case: one call was completed by its timer (the evaluation's stored
\* error is the timeout) and a later call is still pending.
C6_Witness ==
    \E i, j \in RpcIds :
        /\ completions[i] = 1
        /\ \E k \in OwnedKeys : evalResult[k] = ErrorResult("timeout")
        /\ completions[j] = 0
        /\ \E c \in Conns : j \in pendingRequests[c]

\* C7: every executeEvaluation call eventually finishes, and no evaluation
\* stays in status 'running' forever.
C7_EvaluationsFinish ==
    /\ \A d \in Execs : Awaiting(d) ~> ~Awaiting(d)
    /\ \A k \in EvalKeys :
          (k \in OwnedKeys /\ evalStatus[k] = "running")
             ~> (k \in OwnedKeys /\ evalStatus[k] # "running")

\* C8: when an executeEvaluation call finishes, the status of the evaluation
\* it was started for is 'completed' with a response result if it returned
\* and 'failed' with the error stored if it threw.
C8_FinishedStatus ==
    [][\A d \in Execs :
         (Awaiting(d) /\ ~Awaiting(d)') =>
           LET k == <<exec[d].owner, exec[d].eval>> IN
           IF exec'[d] = Returned
           THEN evalStatus'[k] = "completed" /\ evalResult'[k].kind = "response"
           ELSE /\ exec'[d] = Threw
                /\ evalStatus'[k] = "failed"
                /\ evalResult'[k].kind = "error"]_vars

\* C9: an evaluation's status changes only pending -> running, running ->
\* completed, running -> failed or running -> pending, apart from the reset to
\* pending with which the run command restarts it (a step that may go on to
\* set 'running').
AllowedTransitions ==
    {<<"pending", "running">>, <<"running", "completed">>,
     <<"running", "failed">>, <<"running", "pending">>}

C9_StatusTransitions ==
    [][\A k \in OwnedKeys :
         evalStatus'[k] # evalStatus[k] =>
           \/ <<evalStatus[k], evalStatus'[k]>> \in AllowedTransitions
           \/ /\ evalStatus'[k] \in {"pending", "running"}
              /\ runSpecificEvaluation(k[1], k[2])]_vars

\* C10: a status frame changes neither the status nor the stored result of
\* any evaluation.
C10_StatusFramesInert ==
    [][\A c \in Conns : \A f \in StatusFrames :
         handleMessage(c, f) =>
           evalStatus' = evalStatus /\ evalResult' = evalResult]_vars

\* C11: executeEvaluation called with a connection whose ready flag is not
\* set fails at once: the call has thrown, no evaluation status has changed
\* and no evaluate request has gone out on the connection.
C11_NotReadyFailsFast ==
    [][\A d \in Execs, c \in Conns, e \in EvalIds :
         (executeEvaluationCall(d, c, e) /\ ~conn[c].ready) =>
           /\ exec'[d] = Threw
           /\ evalStatus' = evalStatus
           /\ callMethodSends(c) = <<>>]_vars

\* C12: for an llm-judge validation the stored validation.passed is true
\* exactly when the score the judge returned is at least 0.7 (70 hundredths).
C12_PassedIffScoreAtLeastThreshold ==
    [][\A d \in Execs, score \in Scores :
         (JudgeReturn(d, score) /\ <<StatusClient(d), exec[d].eval>> \in OwnedKeys) =>
           evalResult'[<<StatusClient(d), exec[d].eval>>].validation =
             IF score >= JudgeThreshold THEN "passed" ELSE "notpassed"]_vars

\* C13: when the evaluation definition gives its own validation threshold,
\* validation.passed is true exactly when the judge's score is at least that
\* threshold.
C13_DefinitionThresholdUsed ==
    [][\A d \in Execs, score \in Scores :
         (/\ JudgeReturn(d, score)
          /\ <<StatusClient(d), exec[d].eval>> \in OwnedKeys
          /\ EvalThreshold(exec[d].eval) # 0) =>
           evalResult'[<<StatusClient(d), exec[d].eval>>].validation =
             IF score >= EvalThreshold(exec[d].eval) THEN "passed" ELSE "notpassed"]_vars

\* The evaluation a call was started for, as the client store keys it.
DispatchedKey(d) == <<exec[d].owner, exec[d].eval>>

\* C14: a judge that returns a score below the threshold is a normal outcome:
\* the evaluation ends 'completed' with validation.passed = false and
\* executeEvaluation returns; a judge call that throws ends it 'failed' and
\* executeEvaluation throws, and a call awaiting the judge throws in no other way.
C14_LowScoreIsNotAnError ==
    [][\A d \in Execs :
         /\ (\E score \in Scores : score < JudgeThreshold /\ JudgeReturn(d, score)) =>
              /\ exec'[d] = Returned
              /\ evalStatus'[DispatchedKey(d)] = "completed"
              /\ evalResult'[DispatchedKey(d)] = SuccessResult("notpassed")
         /\ JudgeThrow(d) =>
              /\ exec'[d] = Threw
              /\ evalStatus'[DispatchedKey(d)] = "failed"
         /\ (exec[d].pc = "awaitJudge" /\ exec'[d] = Threw) => JudgeThrow(d)]_vars

\* The JSON-RPC success responses an agent can send.
ResultFrames == {f \in Frames : f.rpcKind = "result"}

\* C15: when the agent's success response arrives while the call is pending
\* and the evaluation defines no validation, executeEvaluation returns with
\* the evaluation 'completed', the response stored, no validation result
\* stored, and without awaiting the judge.
C15_NoValidationCompletes ==
    [][\A d \in Execs : \A f \in ResultFrames :
         (/\ exec[d].pc = "awaitRpc"
          /\ exec[d].rpcId = f.id
          /\ EvalValidation(exec[d].eval) = "none"
          /\ handleMessage(exec[d].conn, f)) =>
           /\ exec'[d] = Returned
           /\ evalStatus'[DispatchedKey(d)] = "completed"
           /\ evalResult'[DispatchedKey(d)] = SuccessResult("null")]_vars

\* C16: while an evaluate call is outstanding on an open connection and no
\* response for it has arrived, the evaluation's status stays 'running'; it
\* becomes 'failed', with the timeout error stored, when the call's timer has
\* run down (evaluation.timeout, else 45000 ms), and not before.
C16_RunningUntilDeadline ==
    [][\A d \in Execs :
         (exec[d].pc = "awaitRpc" /\ Open(exec[d].conn)) =>
           LET i == exec[d].rpcId
               c == exec[d].conn
               k == DispatchedKey(d)
           IN  \/ /\ TimerFire(i)
                  /\ timers[i] = 0
                  /\ evalStatus'[k] = "failed"
                  /\ evalResult'[k] = ErrorResult("timeout")
               \/ \E f \in FramesOn(c) : handleResponse(c, f) /\ handleMessage(c, f)
               \/ handleDisconnection(c)
               \/ /\ evalStatus'[k] = "running"
                  /\ exec'[d] = exec[d]
                  /\ timers'[i] \in {timers[i], timers[i] - TickMs}]_vars

\* A frame shaped as a JSON-RPC response whose id is outstanding on c.
MatchesOutstanding(c, f) ==
    f.json /\ f.rpcKind # "none" /\ f.id \in pendingRequests[c]

\* C17: every inbound frame is offered to the connection's RPC correlator
\* first.  A frame whose id matches an outstanding call completes that call
\* and triggers no control-frame handling (connection and directory stay as
\* they were, nothing is sent back); a frame that matches none completes no
\* call and is dispatched on its type (ping answered, register answered,
\* ready and status handled).
ResponseShaped == {f \in Frames : f.rpcKind # "none"}
ReadyTyped == {f \in Frames : f.type = "ready"}

BadFrames == {MalformedFrame, UnknownFrame}

\* C18: a frame that is not valid JSON, or whose type is no known control
\* type, is dropped: handling it leaves the connection open and in the
\* directory, and its flags, the pending calls and every evaluation's status
\* and result exactly as they were.
C18_BadFramesDropped ==
    [][\A c \in Conns : \A f \in BadFrames :
         handleMessage(c, f) =>
           /\ conn' = conn
           /\ connectedAgents' = connectedAgents
           /\ pendingRequests' = pendingRequests
           /\ timers' = timers
           /\ evalStatus' = evalStatus
           /\ evalResult' = evalResult
           /\ exec' = exec]_vars

\* C18's case: bad frames can arrive on an open, registered, ready connection
\* that is in the directory and has a call pending for a running evaluation.
C18_Witness ==
    \E c \in Conns :
        /\ Open(c) /\ conn[c].registered /\ conn[c].ready
        /\ connectedAgents[ClientKey(conn[c].clientId)] = c
        /\ pendingRequests[c] # {}
        /\ \E k \in OwnedKeys : evalStatus[k] = "running"
        /\ \A f \in BadFrames : ENABLED handleMessage(c, f)

\* C19: a JSON-RPC response that arrives after its call was completed (by
\* its timeout) matches no pending entry and is dropped: it completes no
\* call, and no evaluation's stored status or result changes.
C19_LateResponseDropped ==
    [][\A c \in Conns : \A f \in ResponseShaped :
         \/ completions[f.id] = 0
         \/ /\ completions' = completions
            /\ pendingRequests' = pendingRequests
            /\ timers' = timers
            /\ exec' = exec
            /\ evalStatus' = evalStatus
            /\ evalResult' = evalResult
         \/ ~handleMessage(c, f)]_vars

\* C19's case: a call has timed out (the evaluation is 'failed' with the
\* timeout error) and the connection it was issued on is still open, so its
\* late response can still arrive.
C19_Witness ==
    \E c \in Conns, i \in RpcIds, k \in OwnedKeys :
        /\ Open(c) /\ conn[c].ready
        /\ completions[i] = 1
        /\ evalStatus[k] = "failed"
        /\ evalResult[k] = ErrorResult("timeout")
        /\ \E f \in ResponseShaped : f.id = i /\ ENABLED handleMessage(c, f)

\* C20: handling any frame or the disconnection of connection a leaves every
\* other open connection b untouched: each directory entry that maps to b
\* still maps to b, and b's registered flag, ready flag and pending RPC calls
\* are unchanged.
Untouched(b) ==
    /\ \A k \in Keys : connectedAgents[k] = b => connectedAgents'[k] = b
    /\ conn'[b].registered = conn[b].registered
    /\ conn'[b].ready = conn[b].ready
    /\ pendingRequests'[b] = pendingRequests[b]

C20_OtherConnectionsUntouched ==
    [][\A a \in Conns : \A b \in Conns \ {a} :
         \/ ~Open(b)
         \/ Untouched(b)
         \/ ~(\/ handleDisconnection(a)
              \/ \E f \in FramesOn(a) : handleMessage(a, f))]_vars

\* ------------------------------------------------------ evaluateAllAgents

\* The methods class EvaluationServer defines (it extends no class).
Methods ==
    {"constructor", "start", "handleConnection", "handleMessage",
     "handleRegistration", "handleStatusUpdate", "handleDisconnection",
     "sendMessage", "processClientEvaluations", "executeEvaluation",
     "validateResponse", "evaluateAllAgents", "startEvaluationProcessor",
     "getStatus", "getClientManager", "stop"}

\* Array.from(this.connectedAgents.values()).filter(agent => agent.ready)
readyAgents ==
    {c \in Conns : conn[c].ready /\ \E k \in Keys : connectedAgents[k] = c}

\* evaluateAllAgents(task), as its caller sees it: the call rejects when no
\* agent is ready; otherwise the map callback calls this.evaluateAgent for
\* the first ready agent, and calling a method the object lacks throws inside
\* the callback, before .catch is attached, so the call rejects as well.
evaluateAllAgents ==
    IF readyAgents = {}
    THEN [rejects |-> TRUE, error |-> "No ready agents available", results |-> {}]
    ELSE IF "evaluateAgent" \notin Methods
    THEN [rejects |-> TRUE, error |-> "this.evaluateAgent is not a function",
          results |-> {}]
    ELSE [rejects |-> FALSE, error |-> "", results |-> readyAgents]

\* C21: batch dispatch over all connections rejects only when no connection
\* is ready; with at least one ready connection it returns one result per
\* ready connection.
C21_BatchRejectsOnlyWhenNoneReady ==
    /\ evaluateAllAgents.rejects <=> readyAgents = {}
    /\ ~evaluateAllAgents.rejects => evaluateAllAgents.results = readyAgents

getClientEvaluations(clientId) ==
    SelectSeq(EvalOrder, LAMBDA e : e \in ClientEvaluations(clientId))

\* The loop index after an iteration whose executeEvaluation threw: the catch
\* block counts the failure and the for loop goes on with the next element.
afterFailureAborts(evaluations, index) == Len(evaluations)
afterFailure(evaluations, index) == index

\* The head of the loop body for the n-th evaluation, up to `await
\* executeEvaluation`: the status is reset to 'pending' and the evaluation is
\* dispatched on the connection the command looked up when it started.
runAllIteration(run, c, clientId, n) ==
    LET e == getClientEvaluations(clientId)[n] IN
    /\ executeEvaluation("cli", c, clientId, e,
                         updateEvaluationStatus(evalStatus, clientId, e, "pending"))
    /\ runAll' = [run EXCEPT !.pc = "awaitExec", !.conn = c, !.clientId = clientId,
                             !.index = n, !.dispatched = Append(@, e)]

\* EvaluationCLI.runAllEvaluations(clientId): the `run-all` command, up to the
\* first await.  A client that is not connected or not ready, or one without
\* evaluations, only prints a message.
runAllEvaluations(clientId) ==
    LET c == connectedAgents[ClientKey(clientId)] IN
    /\ promptOpen
    /\ c # NoConn
    /\ conn[c].ready
    /\ Len(getClientEvaluations(clientId)) > 0
    /\ runAllIteration(IdleRun, c, clientId, 1)

\* The loop body after `await executeEvaluation`: completed++ when the call
\* returned, failed++ in the catch block when it threw; then the 2 s delay.
runAllSettle ==
    /\ runAll.pc = "awaitExec"
    /\ exec["cli"].pc \in {"returned", "threw"}
    /\ runAll' =
          IF exec["cli"].pc = "returned"
          THEN [runAll EXCEPT !.pc = "delay", !.completed = @ + 1]
          ELSE [runAll EXCEPT !.pc = "delay", !.failed = @ + 1,
                              !.index = afterFailure(getClientEvaluations(runAll.clientId), @)]
    /\ UNCHANGED <<conn, connectedAgents, pendingRequests, timers, completions,
                   nextRpc, evalStatus, evalResult, exec, evalDef>>
    /\ UNCHANGED peerVars

\* The delay is over: the loop takes the next evaluation, or ends and prints
\* the counts.
runAllResume ==
    /\ runAll.pc = "delay"
    /\ IF runAll.index < Len(getClientEvaluations(runAll.clientId))
       THEN runAllIteration(runAll, runAll.conn, runAll.clientId, runAll.index + 1)
       ELSE /\ runAll' = [runAll EXCEPT !.pc = "done"]
            /\ UNCHANGED <<conn, connectedAgents, pendingRequests, timers,
                           completions, nextRpc, evalStatus, evalResult, exec,
                           evalDef>>
            /\ UNCHANGED peerVars

\* The program with a client store of several evaluations and an operator who
\* also gives the run-all command, while RunAllConns sockets come and go.
RunAllNext ==
    \/ \E c \in 1..RunAllConns : handleConnection(c)
    \/ \E c \in Conns : \E f \in FramesOn(c) : handleMessage(c, f)
    \/ \E c \in Conns : handleDisconnection(c)
    \/ Tick
    \/ \E i \in RpcIds : TimerFire(i)
    \/ \E d \in Execs, score \in Scores : JudgeReturn(d, score)
    \/ \E d \in Execs : JudgeThrow(d)
    \/ \E id \in ClientIds, e \in EvalIds : runSpecificEvaluation(id, e)
    \/ \E id \in ClientIds : runAllEvaluations(id)
    \/ runAllSettle
    \/ runAllResume

\* Its store: a judged evaluation with the default timeout, then an unjudged
\* one with a timeout of its own.
RunAllStore ==
    [e1 |-> [validation |-> "llm-judge", timeout |-> 0, threshold |-> 0],
     e2 |-> [validation |-> "none", timeout |-> 2 * TickMs, threshold |-> 0]]

RunAllSpec == InitWith({RunAllStore}) /\ [][RunAllNext]_vars

\* C23: in a run over all k evaluations of one client each evaluation is
\* dispatched exactly once, the next only after the previous dispatch has
\* finished; a failed evaluation does not stop the remaining ones, and when
\* the run ends completed + failed = k.
C23_RunAllDispatchesEachOnce ==
    LET evaluations == getClientEvaluations(runAll.clientId) IN
    /\ \A m, n \in DOMAIN runAll.dispatched :
          m # n => runAll.dispatched[m] # runAll.dispatched[n]
    /\ runAll.pc \in {"awaitExec", "delay"} =>
          Cardinality(UNION {pendingRequests[c] : c \in Conns}) <= 1
    /\ runAll.pc = "awaitExec" /\ Awaiting("cli") =>
          exec["cli"].eval = runAll.dispatched[Len(runAll.dispatched)]
    /\ runAll.pc = "done" =>
          /\ runAll.dispatched = evaluations
          /\ runAll.completed + runAll.failed = Len(evaluations)

\* A run of two evaluations has ended: the first failed, and the second was
\* dispatched after it and completed.
C23_Witness ==
    /\ runAll.pc = "done"
    /\ runAll.dispatched = EvalOrder
    /\ runAll.failed = 1 /\ runAll.completed = 1
    /\ evalStatus[<<"A", "e1">>] = "failed"
    /\ evalStatus[<<"A", "e2">>] = "completed"

\* A connection the server has not accepted yet: nothing was sent on it.
Unaccepted(c) == conn[c].state = "none"

\* C28: on every new connection the server stores the connection in the
\* directory under a fresh transient connection id with registered = false,
\* and welcome is the first frame it sends on that connection, sent exactly
\* once: before the connection is accepted it is in no directory entry, has
\* no pending call and no frame of it is handled (so no registration_ack,
\* pong or evaluate request went out on it), and it is accepted only once.
C28_WelcomeFirst ==
    /\ [](\A c \in Conns : Unaccepted(c) =>
            /\ \A k \in Keys : connectedAgents[k] # c
            /\ pendingRequests[c] = {}
            /\ \A f \in FramesOn(c) : ~ENABLED handleMessage(c, f))
    /\ [][\A c \in Conns :
            /\ handleConnection(c) =>
                  /\ Unaccepted(c) /\ ~Unaccepted(c)'
                  /\ connectedAgents[ConnKey(c)] = NoConn
                  /\ connectedAgents'[ConnKey(c)] = c
                  /\ ~conn'[c].registered
                  /\ handleConnectionSends(c) = <<OutFrame(c, "welcome", "", "", NoRpc)>>
            /\ ~Unaccepted(c) => ~Unaccepted(c)']_vars

\* A connection was just accepted: it is stored under its transient id,
\* unregistered, and a frame of it can now be handled.
C28_Witness ==
    \E c \in Conns :
        /\ Open(c) /\ ~conn[c].registered
        /\ connectedAgents[ConnKey(c)] = c
        /\ ENABLED handleMessage(c, PingFrame)

\* C30: handleDisconnection for connection a removes only a's own directory
\* entry: an entry that maps to another, still open connection b (b
\* registered under a's client id after a did) is still there afterwards.
C30_DisconnectionKeepsOthersEntries ==
    [][\A a \in Conns : \A b \in Conns \ {a} :
         \/ ~Open(b)
         \/ \A k \in Keys : connectedAgents[k] = b => connectedAgents'[k] = b
         \/ ~handleDisconnection(a)]_vars

\* C32: a JSON-RPC response frame that arrives on connection a with the
\* correlation id of a call pending on another connection b is not taken as
\* an RPC response on a, and b's call stays pending: it is not completed,
\* its timer keeps running and its caller keeps waiting.
C32_ResponseOnlyOnOwnConnection ==
    [][\A a \in Conns : \A b \in Conns \ {a} : \A f \in ResponseShaped :
         \/ f.id \notin pendingRequests[b]
         \/ /\ ~handleResponse(a, f)
            /\ pendingRequests' = pendingRequests
            /\ completions' = completions
            /\ timers' = timers
            /\ exec' = exec
         \/ ~handleMessage(a, f)]_vars

\* C32's case: a call is pending on one open connection, and a response
\* frame with its correlation id can arrive on another open connection.
C32_Witness ==
    \E a \in Conns : \E b \in Conns \ {a} : \E i \in RpcIds :
        /\ Open(a) /\ Open(b)
        /\ i \in pendingRequests[b]
        /\ timers[i] # Unarmed
        /\ Awaiting("cli") /\ exec["cli"].rpcId = i
        /\ ENABLED handleMessage(a, ResponseFrame(i, "result", "none"))

\* ---------------------------------------------------------------- getStatus

\* this.activeEvaluations: the constructor sets it, and no method of the
\* class assigns it again.
activeEvaluations == 0

\* The directory's entries, and getStatus(): the directory's size, the
\* entries whose connection is ready, and the activeEvaluations field.
DirectoryKeys == {k \in Keys : connectedAgents[k] # NoConn}
getStatus ==
    [connectedAgents |-> Cardinality(DirectoryKeys),
     readyAgents |-> Cardinality({k \in DirectoryKeys : conn[connectedAgents[k]].ready}),
     activeEvaluations |-> activeEvaluations]

\* The one key the directory is to hold connection c under.
OwnKey(c) == IF conn[c].registered THEN ClientKey(conn[c].clientId) ELSE ConnKey(c)

\* C31: each open connection is in the directory under exactly one key, its
\* connectionId while unregistered and its client identity afterwards; every
\* entry maps to an open connection; so the size getStatus reports is the
\* number of open connections.
C31_DirectoryMatchesOpenConnections ==
    /\ \A c \in Conns :
          Open(c) => \A k \in Keys : connectedAgents[k] = c <=> k = OwnKey(c)
    /\ \A k \in DirectoryKeys : Open(connectedAgents[k])
    /\ getStatus.connectedAgents = Cardinality({c \in Conns : Open(c)})

\* C33: getStatus().activeEvaluations is the number of executeEvaluation
\* calls that have started and have neither returned nor thrown.
C33_ActiveEvaluationsCountsCalls ==
    getStatus.activeEvaluations = Cardinality({d \in Execs : Awaiting(d)})

\* --------------------------------------------------------- EvaluationAgent

\* The frames the agent receives: the control frames, and an evaluate request
\* with id i for evaluation e whose tool the registry knows or not.
AgentMessage(type, status, i, e, tool) ==
    [type |-> type, status |-> status, id |-> i, evaluationId |-> e, tool |-> tool]
WelcomeMessage == AgentMessage("welcome", "", NoRpc, "", "")
RegistrationAckMessage(status) == AgentMessage("registration_ack", status, NoRpc, "", "")
PongMessage == AgentMessage("pong", "", NoRpc, "", "")
OtherMessage == AgentMessage("other", "", NoRpc, "", "")
EvaluationRequest(i, e, tool) == AgentMessage("evaluate", "", i, e, tool)
AgentMessages ==
    {WelcomeMessage, PongMessage, OtherMessage}
    \cup {RegistrationAckMessage(status) : status \in {"accepted", "rejected"}}
    \cup {EvaluationRequest(i, e, tool) :
            i \in AgentReqIds, e \in EvalIds, tool \in {"registered", "missing"}}

\* `if (this.client) this.client.send(frame)`: the frames that reach the wire.
clientSend(a, frame) == IF a.client /\ a.socket = "open" THEN <<frame>> ELSE <<>>

\* A JSON-RPC response of the agent: `id: id` of the request it answers.
Reply(i, kind) == [id |-> i, kind |-> kind]

\* Every tool run that is in progress has seen the socket go away.
Interrupted(requests) ==
    [i \in AgentReqIds |->
        IF requests[i].phase = "tool" THEN [requests[i] EXCEPT !.stayed = FALSE]
        ELSE requests[i]]

\* The 'disconnected' handler of setupEventHandlers: the flags are cleared
\* and the heartbeat stopped.
onDisconnectedClears(a) ==
    [a EXCEPT !.registered = FALSE, !.ready = FALSE, !.heartbeat = FALSE,
              !.socket = "closed", !.requests = Interrupted(@)]

\* disconnect(): heartbeat cleared, client disconnected and dropped, flags
\* cleared, activeEvaluations cleared.
disconnectKeeps(a) == a
disconnect(a) ==
    [a EXCEPT !.heartbeat = FALSE, !.client = FALSE,
              !.socket = IF @ = "none" THEN "none" ELSE "closed",
              !.registered = FALSE, !.ready = FALSE, !.active = {},
              !.requests = Interrupted(@)]

\* handleRegistrationAck's test of the ack.
ackAccepted(m) == m.status = "accepted"

\* handleRegistrationAck: an accepted ack sets registered, sends ready
\* (sendReady: only with a client and registered) and starts the heartbeat; any
\* other ack disconnects.
handleRegistrationAck(a, m) ==
    IF ackAccepted(m)
    THEN [a EXCEPT !.registered = TRUE, !.accepted = TRUE,
                   !.ready = IF a.client THEN TRUE ELSE @,
                   !.sentReady = IF a.client THEN TRUE ELSE @,
                   !.readyAfterReject = IF a.client /\ a.rejected THEN TRUE ELSE @,
                   !.heartbeat = TRUE]
    ELSE [disconnect(a) EXCEPT !.rejected = TRUE]

\* The rest of handleEvaluationRequest once the tool run of request i is
\* settled with `outcome`: the success frame for a result, the error frame
\* from the catch block otherwise, and the finally block.
afterExecution(a, i, outcome) ==
    LET r == a.requests[i]
        kind == IF outcome = "result" THEN "result" ELSE "error"
    IN [a EXCEPT !.active = @ \ {r.evaluationId},
                 !.requests[i] = [r EXCEPT !.phase = "done", !.outcome = outcome,
                                           !.timer = FALSE,
                                           !.replies = @ \o clientSend(a, Reply(i, kind))]]

\* handleEvaluationRequest up to `await executeToolWithTimeout`: the
\* evaluation is tracked; a tool the registry lacks throws at once, otherwise
\* the tool is started and the timer armed (params.timeout || 30000).
handleEvaluationRequest(a, m) ==
    LET tracked == [a EXCEPT !.active = @ \cup {m.evaluationId},
                             !.requests[m.id] =
                                [NoRequest EXCEPT !.phase = "tool",
                                                  !.evaluationId = m.evaluationId,
                                                  !.stayed = TRUE]]
    IN IF m.tool = "missing"
       THEN afterExecution(tracked, m.id, "notFound")
       ELSE [tracked EXCEPT !.requests[m.id].timer = TRUE,
                            !.requests[m.id].toolRunning = TRUE]

\* The tool of request i settles when the timeout has rejected the race
\* already: resolve / reject of the settled promise do nothing, so
\* handleEvaluationRequest is not resumed a second time.
settledLateResumes(a, i, how) == afterExecution(a, i, how)
settledLate(a, i, how) == a

\* connect(): a new WebSocketRPCClient, unless one is connected already.
agentConnect ==
    /\ ~(agent.client /\ agent.socket = "open")
    /\ agent' = [agent EXCEPT !.client = TRUE, !.socket = "open",
                              !.welcomed = FALSE, !.accepted = FALSE,
                              !.rejected = FALSE, !.sentRegister = FALSE,
                              !.sentReady = FALSE, !.readyAfterReject = FALSE]
    /\ UNCHANGED <<serverVars, tracing, backendVars>>

\* The client's 'message' event: EvaluationAgent.handleMessage(m).  The
\* server gives every request a fresh id.
agentHandleMessage(m) ==
    /\ agent.client /\ agent.socket = "open"
    /\ m.type = "evaluate" => agent.requests[m.id].phase = "none"
    /\ agent' =
          CASE m.type = "welcome" ->
                 [agent EXCEPT !.welcomed = TRUE, !.sentRegister = TRUE]
            [] m.type = "registration_ack" -> handleRegistrationAck(agent, m)
            [] m.type = "evaluate" -> handleEvaluationRequest(agent, m)
            [] OTHER -> agent
    /\ UNCHANGED <<serverVars, tracing, backendVars>>

\* The client's 'disconnected' event: the server or the network closed the
\* socket.
agentOnDisconnected ==
    /\ agent.client /\ agent.socket = "open"
    /\ agent' = onDisconnectedClears(agent)
    /\ UNCHANGED <<serverVars, tracing, backendVars>>

\* The embedding page calls disconnect().
agentDisconnect ==
    /\ agent.client
    /\ agent' = disconnect(agent)
    /\ UNCHANGED <<serverVars, tracing, backendVars>>

\* A heartbeat interval elapses: a ping goes out when there is a client and
\* the agent is ready.
agentHeartbeat ==
    /\ agent.heartbeat
    /\ agent.pings < MaxPings
    /\ agent.client /\ agent.ready
    /\ agent' = [agent EXCEPT !.pings = @ + 1]
    /\ UNCHANGED <<serverVars, tracing, backendVars>>

\* tool.execute(input) settles with a result (how = "result") or an error (how
\* = "toolError"): the timer is cleared and, unless the timeout rejected the
\* race already, handleEvaluationRequest goes on.
agentToolSettles(i, how) ==
    /\ agent.requests[i].toolRunning
    /\ agent' =
          IF agent.requests[i].phase = "tool"
          THEN [afterExecution(agent, i, how) EXCEPT !.requests[i].toolRunning = FALSE]
          ELSE [settledLate(agent, i, how) EXCEPT !.requests[i].toolRunning = FALSE]
    /\ UNCHANGED <<serverVars, tracing, backendVars>>

\* executeToolWithTimeout's timer fires before the tool has settled: the race
\* is rejected with a timeout error.
agentToolTimeout(i) ==
    /\ agent.requests[i].timer
    /\ agent' = afterExecution(agent, i, "timeout")
    /\ UNCHANGED <<serverVars, tracing, backendVars>>

AgentNext ==
    \/ agentConnect
    \/ \E m \in AgentMessages : agentHandleMessage(m)
    \/ agentOnDisconnected
    \/ agentDisconnect
    \/ agentHeartbeat
    \/ \E i \in AgentReqIds, how \in {"result", "toolError"} : agentToolSettles(i, how)
    \/ \E i \in AgentReqIds : agentToolTimeout(i)

AgentSpec == InitWith({RunAllStore}) /\ [][AgentNext]_vars

\* Timers of the agent's runtime fire.
AgentFairSpec ==
    AgentSpec /\ \A i \in AgentReqIds : WF_vars(agentToolTimeout(i))

\* C24: the agent sends register only after it has received welcome, sends
\* ready and starts its heartbeat only after it has received an accepted
\* registration_ack, and after a rejected registration_ack it sends no ready
\* and is neither registered nor ready.
C24_AgentHandshakeOrder ==
    /\ agent.sentRegister => agent.welcomed
    /\ agent.sentReady => agent.accepted
    /\ agent.ready => agent.accepted /\ agent.registered
    /\ agent.heartbeat => agent.accepted
    /\ agent.rejected => ~agent.registered /\ ~agent.ready /\ ~agent.heartbeat
    /\ ~agent.readyAfterReject

\* The agent registered after welcome, was accepted and sent ready, and then
\* received a rejected ack on the same connection.
C24_Witness ==
    /\ agent.welcomed /\ agent.sentRegister
    /\ agent.accepted /\ agent.sentReady
    /\ agent.rejected

\* C25: for every evaluate request, the agent sends at most one JSON-RPC
\* response, it carries the request's id, and an agent that stayed connected
\* has sent exactly one when the request is done: a success frame if the tool
\* returned in time, an error frame otherwise; and every request gets done.
C25_OneReplyPerRequest ==
    /\ [](\A i \in AgentReqIds :
            LET r == agent.requests[i] IN
            /\ Len(r.replies) <= 1
            /\ \A n \in DOMAIN r.replies : r.replies[n].id = i
            /\ r.phase = "done" /\ r.stayed =>
                  r.replies = <<Reply(i, IF r.outcome = "result" THEN "result"
                                         ELSE "error")>>)
    /\ \A i \in AgentReqIds :
          (agent.requests[i].phase = "tool") ~> (agent.requests[i].phase = "done")

\* One request was answered with a success frame and another with an error
\* frame, on a connection that stayed up.
C25_Witness ==
    \E i, j \in AgentReqIds :
        /\ agent.requests[i].phase = "done" /\ agent.requests[i].stayed
        /\ agent.requests[i].replies = <<Reply(i, "result")>>
        /\ agent.requests[j].phase = "done" /\ agent.requests[j].stayed
        /\ agent.requests[j].outcome = "toolError"
        /\ agent.requests[j].replies = <<Reply(j, "error")>>

\* C26: when the tool has not finished within the timeout the execution is
\* rejected with a timeout error and the reply is an error frame; a tool
\* result or error that arrives after it is discarded and causes no frame.
C26_TimeoutThenLateResultDropped ==
    [][\A i \in AgentReqIds :
         /\ agentToolTimeout(i) =>
               /\ agent.requests[i].toolRunning
               /\ agent'.requests[i].outcome = "timeout"
               /\ agent.requests[i].stayed =>
                     agent'.requests[i].replies = <<Reply(i, "error")>>
         /\ \A how \in {"result", "toolError"} :
               agent.requests[i].outcome = "timeout" /\ agentToolSettles(i, how) =>
                  agent' = [agent EXCEPT !.requests[i].toolRunning = FALSE]]_vars

\* A request timed out, was answered with an error frame, and its tool has
\* settled since.
C26_Witness ==
    \E i \in AgentReqIds :
        /\ agent.requests[i].outcome = "timeout"
        /\ agent.requests[i].stayed
        /\ ~agent.requests[i].toolRunning
        /\ agent.requests[i].replies = <<Reply(i, "error")>>

\* C27: after the agent's socket closes, by a remote close or by
\* disconnect(), the agent is neither registered nor ready, its heartbeat is
\* stopped, and its map of in-progress evaluations is empty.
C27_CloseClearsAgent ==
    [][agentOnDisconnected \/ agentDisconnect =>
         /\ ~agent'.registered /\ ~agent'.ready
         /\ ~agent'.heartbeat
         /\ agent'.active = {}]_vars

\* ------------------------------------------------------ HTTPTracingBackend

\* The events first..last, in recording order.
EventRun(first, last) == [n \in 1..(last - first + 1) |-> first + n - 1]

\* Without one of an indexed sequence's elements.
RemoveAt(seq, n) == SubSeq(seq, 1, n - 1) \o SubSeq(seq, n + 1, Len(seq))

\* The guard of flush(): a flush is in progress, or nothing is pending.
flushSkipped(h) == h.isFlushing \/ h.pendingEvents = <<>>

\* flush(), up to its await fetch: pendingEvents is copied into eventsToSend
\* and emptied, and isFlushing is set.
httpFlushStart(h) ==
    IF flushSkipped(h) THEN h
    ELSE [h EXCEPT !.isFlushing = TRUE,
                   !.flights = Append(@, h.pendingEvents),
                   !.pendingEvents = <<>>,
                   !.requeued = 0]

\* sendEvent(event): the event is pushed, and flush() is awaited when the
\* batch size is reached.
sendEvent(h, event) ==
    LET pushed == [h EXCEPT !.recorded = @ + 1,
                            !.pendingEvents = Append(@, event)] IN
    IF Len(pushed.pendingEvents) >= HttpBatchSize THEN httpFlushStart(pushed)
    ELSE pushed

\* sendBatch(events): the events are pushed and flush() is awaited.
sendBatch(h, n) ==
    httpFlushStart([h EXCEPT
        !.recorded = @ + n,
        !.pendingEvents = @ \o EventRun(h.recorded + 1, h.recorded + n)])

\* The catch block of flush(): this.pendingEvents.unshift(...eventsToSend).
requeueBehind(eventsToSend, pending) == pending \o eventsToSend
requeue(eventsToSend, pending) == eventsToSend \o pending

\* --------------------------------------------------------- TracingCallback

\* The maxEvents values a caller passes in its options.
TracedOptions == {NoOption, 0, 1, 2, 3}

\* The constructor's options: {maxEvents: 1000, ...options}.
OptionsMaxEvents(maxEvents) ==
    IF maxEvents = NoOption THEN DefaultMaxEvents ELSE maxEvents

\* this.options.maxEvents || 1000: 0 is falsy.
EventLimit(maxEvents) ==
    IF OptionsMaxEvents(maxEvents) = 0 THEN DefaultMaxEvents
    ELSE OptionsMaxEvents(maxEvents)

\* The backends of a TracingCallback whose configuration enables an HTTP
\* backend and a console backend, in that order.
TwoBackends == <<"http", "console">>

\* How many events a run gives the callback.
TraceBound == IF tracing.backends = <<>> THEN MaxTraced ELSE MaxDispatched

\* await backend.sendEvent(event) on the HTTP backend h settles only after a
\* POST when the call starts a flush; otherwise it settles at once.
awaitsFlush(h, event) == Len(sendEvent(h, event).flights) > Len(h.flights)

\* addEvent(type, data), called by every callback: the event is pushed, and
\* the oldest one shifted out when the list is longer than the limit; then
\* sendToBackends(event) is called and not awaited.  It hands the event to
\* the first backend at once, and to the next one when the first backend's
\* sendEvent has settled.  An event is identified by its place in the order
\* of the calls.
addEvent ==
    /\ tracing.count < TraceBound
    /\ LET event == tracing.count + 1
           pushed == Append(tracing.events, event)
           slow == tracing.backends # <<>> /\ awaitsFlush(http, event) IN
       /\ tracing' = [tracing EXCEPT
                         !.count = event,
                         !.events = IF Len(pushed) > EventLimit(tracing.maxEvents)
                                    THEN Tail(pushed) ELSE pushed,
                         !.awaiting = IF slow THEN Append(@, event) ELSE @]
       /\ http' = IF tracing.backends = <<>> THEN http ELSE sendEvent(http, event)
       /\ sink' = IF tracing.backends = <<>> \/ slow THEN sink
                  ELSE Append(sink, event)
    /\ UNCHANGED <<serverVars, agent, langfuse, provider, contexts>>

TracingNext == addEvent

\* A TracingCallback built with one of the traced options and no backend.
TracingInit ==
    /\ ServerInit({RunAllStore})
    /\ agent = NewAgent
    /\ tracing \in {NewTracing(maxEvents) : maxEvents \in TracedOptions}
    /\ BackendsInit

TracingSpec == TracingInit /\ [][TracingNext]_vars

\* C29: the event list of a TracingCallback never holds more than maxEvents
\* events (1000 when the options give none), and it consists of the most
\* recent events in recording order.
C29_EventListBounded ==
    LET held == Len(tracing.events) IN
    /\ held <= OptionsMaxEvents(tracing.maxEvents)
    /\ tracing.events = [n \in 1..held |-> tracing.count - held + n]

\* ---------------------------------------------------------- SimpleLangfuse

\* The events of a batch, as a set.
EventsOf(batch) == {batch[n] : n \in DOMAIN batch}

\* event(options) and the other recording methods: one event is pushed onto
\* pendingEvents.
langfuseEvent ==
    /\ langfuse.recorded < MaxLangfuseEvents
    /\ langfuse' = [langfuse EXCEPT
                      !.recorded = @ + 1,
                      !.pendingEvents = Append(@, langfuse.recorded + 1)]
    /\ UNCHANGED <<serverVars, agent, tracing, http, provider, contexts, sink>>

\* flush(), called by flusher w (the periodic timer of LangfuseTracingBackend,
\* or its flush() / close()): with events pending, the body of the POST is
\* serialised from pendingEvents and the call waits for fetch.
langfuseFlush(w) ==
    /\ langfuse.posting[w] = NoBatch
    /\ langfuse.pendingEvents # <<>>
    /\ langfuse' = [langfuse EXCEPT !.posting[w] = langfuse.pendingEvents]
    /\ UNCHANGED <<serverVars, agent, tracing, http, provider, contexts, sink>>

\* What pendingEvents is after a POST of `batch` succeeded.
pendingAfterPost(pending, batch) == <<>>

\* response.ok: the endpoint took the batch, and pendingEvents is reset.
langfusePostOk(w) ==
    /\ langfuse.posting[w] # NoBatch
    /\ langfuse' = [langfuse EXCEPT
          !.posting[w] = NoBatch,
          !.delivered = [e \in DOMAIN @ |->
                           IF e \in EventsOf(langfuse.posting[w]) THEN @[e] + 1 ELSE @[e]],
          !.pendingEvents = pendingAfterPost(@, langfuse.posting[w])]
    /\ UNCHANGED <<serverVars, agent, tracing, http, provider, contexts, sink>>

\* A response that is not ok, or fetch throwing: the error is logged and
\* pendingEvents stays.
langfusePostFails(w) ==
    /\ langfuse.posting[w] # NoBatch
    /\ langfuse' = [langfuse EXCEPT !.posting[w] = NoBatch]
    /\ UNCHANGED <<serverVars, agent, tracing, http, provider, contexts, sink>>

LangfuseNext ==
    \/ langfuseEvent
    \/ \E w \in Flushers : langfuseFlush(w)
    \/ \E w \in Flushers : langfusePostOk(w)
    \/ \E w \in Flushers : langfusePostFails(w)

LangfuseSpec == InitWith({RunAllStore}) /\ [][LangfuseNext]_vars

\* C34: SimpleLangfuse delivers every recorded event exactly once: no event
\* is part of two successful POSTs, and an event that no successful POST
\* held is still pending or in the body of a POST in flight.
C34_EventsDeliveredOnce ==
    \A e \in 1..langfuse.recorded :
        /\ langfuse.delivered[e] <= 1
        /\ langfuse.delivered[e] = 0 =>
              \/ e \in EventsOf(langfuse.pendingEvents)
              \/ \E w \in Flushers : e \in EventsOf(langfuse.posting[w])

\* ---------------------------------------------- HTTPTracingBackend, in use

httpSendEvent ==
    /\ http.recorded < MaxHttpEvents
    /\ http' = sendEvent(http, http.recorded + 1)
    /\ UNCHANGED <<serverVars, agent, tracing, langfuse, provider, contexts, sink>>

httpSendBatch(n) ==
    /\ http.recorded + n <= MaxHttpEvents
    /\ http' = sendBatch(http, n)
    /\ UNCHANGED <<serverVars, agent, tracing, langfuse, provider, contexts, sink>>

\* flush(), called by the periodic timer or by close().
httpFlush ==
    /\ http' = httpFlushStart(http)
    /\ UNCHANGED <<serverVars, agent, tracing, langfuse, provider, contexts, sink>>

\* The flush a sendToBackends call awaits has settled (returned, or thrown
\* into the catch block of its loop): the loop goes on to the next backend.
resumeSendToBackends ==
    /\ sink' = sink \o tracing.awaiting
    /\ tracing' = [tracing EXCEPT !.awaiting = <<>>]

\* The POST of flight n is answered with response.ok.
httpPostOk(n) ==
    /\ n \in DOMAIN http.flights
    /\ http' = [http EXCEPT !.flights = RemoveAt(@, n),
                            !.sent = @ \o http.flights[n],
                            !.isFlushing = FALSE]
    /\ resumeSendToBackends
    /\ UNCHANGED <<serverVars, agent, langfuse, provider, contexts>>

\* The POST of flight n fails (a response that is not ok, fetch throwing or
\* the abort of the timeout): the batch goes back to pendingEvents.
httpPostFails(n) ==
    /\ n \in DOMAIN http.flights
    /\ http' = [http EXCEPT !.flights = RemoveAt(@, n),
                            !.pendingEvents = requeue(http.flights[n], @),
                            !.requeued = Len(http.flights[n]),
                            !.isFlushing = FALSE]
    /\ resumeSendToBackends
    /\ UNCHANGED <<serverVars, agent, langfuse, provider, contexts>>

HttpNext ==
    \/ httpSendEvent
    \/ \E n \in 1..MaxBatch : httpSendBatch(n)
    \/ httpFlush
    \/ \E n \in 1..MaxFlights : httpPostOk(n)
    \/ \E n \in 1..MaxFlights : httpPostFails(n)

HttpSpec == InitWith({RunAllStore}) /\ [][HttpNext]_vars

\* C35: HTTPTracingBackend has at most one POST in flight, and the events the
\* endpoint accepted, then the batch in flight, then pendingEvents are exactly
\* the events given to sendEvent and sendBatch, each once, in the order they
\* were given; so a failed POST's batch sits in front of the events recorded
\* meanwhile.
C35_HttpEventsKeptInOrder ==
    /\ Len(http.flights) <= 1
    /\ http.isFlushing <=> http.flights # <<>>
    /\ http.sent \o (IF http.flights = <<>> THEN <<>> ELSE http.flights[1])
                 \o http.pendingEvents
          = EventRun(1, http.recorded)

\* A failed POST has put its batch back in front of events that were
\* recorded while it was in flight.
C35_Witness ==
    /\ http.requeued > 0
    /\ Len(http.pendingEvents) > http.requeued
    /\ ~http.isFlushing

\* -------------------------------------------------------- LangfuseProvider

\* flush(), up to the await in sendBatch: with events buffered, the buffer is
\* copied into a batch and emptied.
providerFlushStart(p) ==
    IF p.eventBuffer = <<>> THEN p
    ELSE [p EXCEPT !.flights = Append(@, p.eventBuffer),
                   !.eventBuffer = <<>>]

\* addEvent(event): the event is pushed, and flush() is called, not awaited,
\* when the buffer has reached batchSize.
providerPush(p) ==
    LET pushed == [p EXCEPT !.recorded = @ + 1,
                            !.eventBuffer = Append(@, p.recorded + 1)] IN
    IF Len(pushed.eventBuffer) >= ProviderBatchSize THEN providerFlushStart(pushed)
    ELSE pushed

\* createTrace, createObservation and the other recording methods.
providerAddEvent ==
    /\ provider.recorded < MaxProviderEvents
    /\ Len(provider.flights) < MaxFlights
    /\ provider' = providerPush(provider)
    /\ UNCHANGED <<serverVars, agent, tracing, langfuse, http, contexts, sink>>

\* finalizeTrace: the trace event is added, then flush() is awaited.
providerFinalizeTrace ==
    /\ provider.recorded < MaxProviderEvents
    /\ Len(provider.flights) < MaxFlights
    /\ provider' = providerFlushStart(providerPush(provider))
    /\ UNCHANGED <<serverVars, agent, tracing, langfuse, http, contexts, sink>>

\* The timer of startAutoFlush fires.
providerTimerFlush ==
    /\ Len(provider.flights) < MaxFlights
    /\ provider' = providerFlushStart(provider)
    /\ UNCHANGED <<serverVars, agent, tracing, langfuse, http, contexts, sink>>

\* sendBatch of flight n returns: the endpoint took the batch.
providerSendOk(n) ==
    /\ n \in DOMAIN provider.flights
    /\ provider' = [provider EXCEPT
                      !.flights = RemoveAt(@, n),
                      !.sent = @ \cup EventsOf(provider.flights[n])]
    /\ UNCHANGED <<serverVars, agent, tracing, langfuse, http, contexts, sink>>

\* sendBatch of flight n throws: the catch block of flush() unshifts the
\* batch onto eventBuffer.
providerSendFails(n) ==
    /\ n \in DOMAIN provider.flights
    /\ provider' = [provider EXCEPT
                      !.flights = RemoveAt(@, n),
                      !.eventBuffer = provider.flights[n] \o @]
    /\ UNCHANGED <<serverVars, agent, tracing, langfuse, http, contexts, sink>>

ProviderNext ==
    \/ providerAddEvent
    \/ providerFinalizeTrace
    \/ providerTimerFlush
    \/ \E n \in 1..MaxFlights : providerSendOk(n)
    \/ \E n \in 1..MaxFlights : providerSendFails(n)

ProviderSpec == InitWith({RunAllStore}) /\ [][ProviderNext]_vars

\* The events of the batches in flight.
ProviderInFlight ==
    UNION {EventsOf(provider.flights[n]) : n \in DOMAIN provider.flights}

\* C36: eventBuffer holds exactly the events that were neither sent
\* successfully nor are in flight, each once, in the order they were added.
C36_BufferInRecordingOrder ==
    LET buffer == provider.eventBuffer IN
    /\ EventsOf(buffer) = (1..provider.recorded) \ (provider.sent \cup ProviderInFlight)
    /\ Cardinality(EventsOf(buffer)) = Len(buffer)
    /\ \A i, j \in DOMAIN buffer : i < j => buffer[i] < buffer[j]

\* -------------------------------------------------- TracingContextManager

\* getContext(): the top of contextStack, or null (NoCall) when it is empty.
\* The context of call p is p.
getContext(stack) == IF Len(stack) > 0 THEN stack[Len(stack)] ELSE NoCall

\* The calls whose fn is executing.
RunningCalls == {p \in ContextCalls : contexts.calls[p].pc = "running"}

\* The calls made, and awaited, inside the fn of call p that have not settled.
NestedIn(p) == {q \in RunningCalls : contexts.calls[q].parent = p}

\* The finally block of withContext: contexts are popped while the stack is
\* longer than it was when the call began.
restoreStack(stack, previousStackSize) ==
    IF Len(stack) > previousStackSize THEN SubSeq(stack, 1, previousStackSize)
    ELSE stack

\* withContext(context, fn), up to the await of fn(): the stack size is
\* noted and the context pushed.  parent is the call whose fn makes this
\* call (NoCall: it is made outside every withContext).
withContextEnter(p, parent) ==
    /\ contexts.calls[p].pc = "idle"
    /\ \A q \in ContextCalls : q < p => contexts.calls[q].pc # "idle"
    /\ parent \in RunningCalls \cup {NoCall}
    /\ contexts' = [contexts EXCEPT
          !.contextStack = Append(@, p),
          !.calls[p] = [pc |-> "running", parent |-> parent,
                        previousStackSize |-> Len(contexts.contextStack),
                        before |-> contexts.contextStack, after |-> <<>>]]
    /\ UNCHANGED <<serverVars, agent, tracing, langfuse, http, provider, sink>>

\* fn() settles, with a value or an exception, and the finally block runs.
\* A call awaited inside fn has settled before.
withContextSettle(p) ==
    /\ p \in RunningCalls
    /\ NestedIn(p) = {}
    /\ LET restored == restoreStack(contexts.contextStack,
                                    contexts.calls[p].previousStackSize) IN
       contexts' = [contexts EXCEPT
          !.contextStack = restored,
          !.calls[p].pc = "settled",
          !.calls[p].after = restored]
    /\ UNCHANGED <<serverVars, agent, tracing, langfuse, http, provider, sink>>

ContextNext ==
    \/ \E p \in ContextCalls : \E parent \in ContextCalls \cup {NoCall} :
          withContextEnter(p, parent)
    \/ \E p \in ContextCalls : withContextSettle(p)

ContextSpec == InitWith({RunAllStore}) /\ [][ContextNext]_vars

\* C37: while the fn of a withContext call executes outside the calls nested
\* in it, getContext() returns that call's context; and once the call has
\* settled, the context stack is what it was before the call.
C37_ContextHeldAndRestored ==
    \A p \in ContextCalls :
        /\ (p \in RunningCalls /\ NestedIn(p) = {})
              => getContext(contexts.contextStack) = p
        /\ contexts.calls[p].pc = "settled"
              => contexts.calls[p].after = contexts.calls[p].before

\* ------------------------------------------ TracingCallback with backends

DispatchNext ==
    \/ addEvent
    \/ httpFlush
    \/ \E n \in 1..MaxFlights : httpPostOk(n)
    \/ \E n \in 1..MaxFlights : httpPostFails(n)

\* A TracingCallback built with default options and the two backends.
DispatchInit ==
    /\ ServerInit({RunAllStore})
    /\ agent = NewAgent
    /\ tracing = [NewTracing(NoOption) EXCEPT !.backends = TwoBackends]
    /\ BackendsInit

DispatchSpec == DispatchInit /\ [][DispatchNext]_vars

\* Whether a sequence of events is in recording order.
InRecordingOrder(events) ==
    \A i, j \in DOMAIN events : i < j => events[i] < events[j]

\* C38: each backend of a TracingCallback is sent the events in the order
\* addEvent recorded them: the HTTP backend (what it delivered, is sending
\* and holds pending) and the console backend after it.
C38_BackendsReceiveInOrder ==
    /\ InRecordingOrder(http.sent \o (IF http.flights = <<>> THEN <<>> ELSE http.flights[1])
                                  \o http.pendingEvents)
    /\ InRecordingOrder(sink)

====
